---- MODULE Spec2Model ----
(***************************************************************************)
(* Model of cloud/amazon/ec2_elb_tag.py: one run of main() reads the tags  *)
(* of one ELB (DescribeTags), computes a delta against the `tags` argument *)
(* and issues at most one AddTags or RemoveTags request.                   *)
(*                                                                         *)
(* A Python dict is a TLA+ function whose DOMAIN is its key set.  The      *)
(* module argument `tags` may be missing (None): it is the record          *)
(* [given, items].  A remote call either returns or raises; the module has *)
(* no try/except around DescribeTags or make_request, so a raised          *)
(* exception ends the run as a failure that reports no `changed`.          *)
(***************************************************************************)
EXTENDS Integers, Sequences, FiniteSets, TLC

\* ---------------------------------------------------------------- bounds
\* number of distinct tag values in play
NumValues == 2

KeyNames == <<"A", "B">>
ValueNames == <<"1", "2", "3", "4">>
Keys == {KeyNames[i] : i \in DOMAIN KeyNames}
Values == {ValueNames[i] : i \in 1..NumValues}

Procs == {"p1", "p2"}
name == "frontend-prod-elb"

\* ---------------------------------------------------------------- dicts
Dicts == UNION {[D -> Values] : D \in SUBSET Keys}
EmptyDict == [k \in {} |-> "1"]

\* dict.items() as a set of (key, value) tuples
Items(d) == {<<k, d[k]>> : k \in DOMAIN d}

\* dict(S) for a set S of (key, value) tuples with one value per key
Dict(S) == [k \in {it[1] : it \in S} |-> (CHOOSE it \in S : it[1] = k)[2]]

\* iteration order of a dict (enumerate): some fixed order of its keys
RECURSIVE KeyOrder(_)
KeyOrder(S) ==
    IF S = {} THEN <<>>
    ELSE LET k == CHOOSE x \in S : \A y \in S :
                     \E i, j \in DOMAIN KeyNames :
                         KeyNames[i] = x /\ KeyNames[j] = y /\ i <= j
         IN <<k>> \o KeyOrder(S \ {k})

States == {"present", "absent", "list"}
TagsArgs == {[given |-> FALSE, items |-> EmptyDict]}
            \cup {[given |-> TRUE, items |-> d] : d \in Dicts}

\* Python truthiness of the tags argument: None and {} are both falsy
Truthy(t) == t.given /\ DOMAIN t.items # {}

VARIABLES
    remote,     \* the tags the ELB carries
    pc,         \* position of each run of main()
    state,      \* module.params['state']
    tags,       \* module.params['tags']
    current_tags, \* the list DescribeTags returned
    tagdict,    \* dict built from current_tags
    dictact,    \* the delta
    params,     \* request parameters Tags.member.N.*
    result,     \* what exit_json / fail_json / a traceback reported
    calls,      \* requests issued by this run, per API action
    pre,        \* remote tags when the run started
    atReturn,   \* remote tags when the run returned
    interfered, \* another run's request changed the ELB between read and return
    prev        \* the caller's previous run, when this run repeats its arguments

vars == <<remote, pc, state, tags, current_tags, tagdict, dictact, params,
          result, calls, pre, atReturn, interfered, prev>>

NoResult == [failed |-> FALSE, changed |-> FALSE, msg |-> "",
             has_tags |-> FALSE, tags |-> EmptyDict]
NoCalls == [DescribeTags |-> 0, AddTags |-> 0, RemoveTags |-> 0]
NoPrev == [valid |-> FALSE, failed |-> FALSE, changed |-> FALSE]

Init ==
    /\ remote \in Dicts
    /\ pc = [p \in Procs |-> "idle"]
    /\ state = [p \in Procs |-> "list"]
    /\ tags = [p \in Procs |-> [given |-> FALSE, items |-> EmptyDict]]
    /\ current_tags = [p \in Procs |-> <<>>]
    /\ tagdict = [p \in Procs |-> EmptyDict]
    /\ dictact = [p \in Procs |-> EmptyDict]
    /\ params = [p \in Procs |-> <<>>]
    /\ result = [p \in Procs |-> NoResult]
    /\ calls = [p \in Procs |-> NoCalls]
    /\ pre = [p \in Procs |-> remote]
    /\ atReturn = [p \in Procs |-> remote]
    /\ interfered = [p \in Procs |-> FALSE]
    /\ prev = [p \in Procs |-> NoPrev]

\* ---------------------------------------------------------------- results
\* faulty variant: every exit reports a change
exit_json_Changed(changed, msg) ==
    [failed |-> FALSE, changed |-> TRUE, msg |-> msg,
     has_tags |-> FALSE, tags |-> EmptyDict]

\* module.exit_json(msg=..., changed=...)
exit_json(changed, msg) ==
    [failed |-> FALSE, changed |-> changed, msg |-> msg,
     has_tags |-> FALSE, tags |-> EmptyDict]
\* module.exit_json(changed=..., tags=...)
exit_json_tags(changed, t) ==
    [failed |-> FALSE, changed |-> changed, msg |-> "",
     has_tags |-> TRUE, tags |-> t]
\* module.fail_json(msg=...)
fail_json(msg) ==
    [failed |-> TRUE, changed |-> FALSE, msg |-> msg,
     has_tags |-> FALSE, tags |-> EmptyDict]
\* an exception nobody catches: the run ends with a traceback
Traceback == fail_json("exception")

\* ---------------------------------------------------------------- main()
\* module = AnsibleModule(...); name, tags, state = module.params[...]
Invoke(p) ==
    /\ pc[p] \in {"idle", "done"}
    /\ \E s \in States, t \in TagsArgs :
        /\ state' = [state EXCEPT ![p] = s]
        /\ tags' = [tags EXCEPT ![p] = t]
        /\ prev' = [prev EXCEPT ![p] =
                      IF pc[p] = "done" /\ s = state[p] /\ t = tags[p]
                      THEN [valid |-> TRUE, failed |-> result[p].failed,
                            changed |-> result[p].changed]
                      ELSE NoPrev]
    /\ pc' = [pc EXCEPT ![p] = "describe"]
    /\ current_tags' = [current_tags EXCEPT ![p] = <<>>]
    /\ tagdict' = [tagdict EXCEPT ![p] = EmptyDict]
    /\ dictact' = [dictact EXCEPT ![p] = EmptyDict]
    /\ params' = [params EXCEPT ![p] = <<>>]
    /\ result' = [result EXCEPT ![p] = NoResult]
    /\ calls' = [calls EXCEPT ![p] = NoCalls]
    /\ pre' = [pre EXCEPT ![p] = remote]
    /\ atReturn' = [atReturn EXCEPT ![p] = remote]
    /\ interfered' = [interfered EXCEPT ![p] = FALSE]
    /\ UNCHANGED remote

\* The DescribeTags answer as boto's get_list parses it with the marker
\* ('member', Tag): one object for the enclosing TagDescriptions member (it
\* has no Key) and one object per tag.
DescribeTagsResult(r) ==
    <<[LoadBalancerName |-> name]>>
    \o [i \in 1..Cardinality(DOMAIN r) |->
          [Key |-> KeyOrder(DOMAIN r)[i], Value |-> r[KeyOrder(DOMAIN r)[i]]]]

\* faulty variant: key and value swapped
TagDict_Swapped(ct) ==
    LET withKey == {i \in DOMAIN ct : "Key" \in DOMAIN ct[i]}
    IN [v \in {ct[i].Value : i \in withKey} |->
          ct[CHOOSE i \in withKey : ct[i].Value = v].Key]

\* {tag.Key : tag.Value for tag in current_tags if hasattr(tag, 'Key')}
TagDict(ct) ==
    LET withKey == {i \in DOMAIN ct : "Key" \in DOMAIN ct[i]}
    IN [k \in {ct[i].Key : i \in withKey} |->
          ct[CHOOSE i \in withKey :
                /\ ct[i].Key = k
                /\ \A j \in withKey : ct[j].Key = k => j <= i].Value]

\* current_tags = connection.get_list('DescribeTags', ...); tagdict = {...}
DescribeTags(p) ==
    /\ pc[p] = "describe"
    /\ calls' = [calls EXCEPT ![p].DescribeTags = @ + 1]
    /\ \/ /\ current_tags' = [current_tags EXCEPT ![p] = DescribeTagsResult(remote)]
          /\ tagdict' = [tagdict EXCEPT ![p] = TagDict(DescribeTagsResult(remote))]
          /\ pc' = [pc EXCEPT ![p] = "branch"]
          /\ UNCHANGED <<result, atReturn>>
       \/ /\ result' = [result EXCEPT ![p] = Traceback]
          /\ pc' = [pc EXCEPT ![p] = "done"]
          /\ atReturn' = [atReturn EXCEPT ![p] = remote]
          /\ UNCHANGED <<current_tags, tagdict>>
    /\ UNCHANGED <<remote, state, tags, dictact, params, pre, interfered, prev>>

\* faulty variants of the delta, used to test what the properties detect
PresentDelta_All(t, td) == Dict(Items(t))
PresentDelta_KeysOnly(t, td) == [k \in DOMAIN t \ DOMAIN td |-> t[k]]
PresentDelta_Intersection(t, td) == Dict(Items(t) \cap Items(td))
AbsentDelta_Difference(t, td) == Dict(Items(t) \ Items(td))
AbsentDelta_KeysOnly(t, td) == [k \in DOMAIN t \cap DOMAIN td |-> t[k]]

\* dict(set(tags.items()) - set(tagdict.items()))
PresentDelta(t, td) == Dict(Items(t) \ Items(td))

\* dict(set(tags.items()) & set(tagdict.items()))
AbsentDelta(t, td) == Dict(Items(t) \cap Items(td))

\* faulty variant: the emptiness test never succeeds
Empty_Never(d) == FALSE

\* `not dictact`
Empty(d) == DOMAIN d = {}

\* faulty variant: enumerate() taken from the second entry on
AddTagsParams_SkipFirst(d) ==
    [i \in 1..(Cardinality(DOMAIN d) - 1) |->
        [Key |-> KeyOrder(DOMAIN d)[i + 1], Value |-> d[KeyOrder(DOMAIN d)[i + 1]]]]

\* params['Tags.member.%d.Key'], params['Tags.member.%d.Value']
AddTagsParams(d) ==
    [i \in 1..Cardinality(DOMAIN d) |->
        [Key |-> KeyOrder(DOMAIN d)[i], Value |-> d[KeyOrder(DOMAIN d)[i]]]]

\* params['Tags.member.%d.Key']
RemoveTagsParams(d) ==
    [i \in 1..Cardinality(DOMAIN d) |-> [Key |-> KeyOrder(DOMAIN d)[i]]]

Return(p, r, elb) ==
    /\ result' = [result EXCEPT ![p] = r]
    /\ pc' = [pc EXCEPT ![p] = "done"]
    /\ atReturn' = [atReturn EXCEPT ![p] = elb]

BranchList(p) ==
    /\ state[p] = "list"
    /\ Return(p, exit_json_tags(FALSE, tagdict[p]), remote)
    /\ UNCHANGED <<dictact, params>>

BranchPresent(p) ==
    /\ state[p] = "present"
    /\ IF ~Truthy(tags[p])
       THEN /\ Return(p, fail_json("tags argument is required when state is present"), remote)
            /\ UNCHANGED <<dictact, params>>
       ELSE LET d == PresentDelta(tags[p].items, tagdict[p]) IN
            /\ dictact' = [dictact EXCEPT ![p] = d]
            /\ IF Empty(d)
               THEN /\ Return(p, exit_json(FALSE, "Tags already exist"), remote)
                    /\ UNCHANGED params
               ELSE /\ params' = [params EXCEPT ![p] = AddTagsParams(d)]
                    /\ pc' = [pc EXCEPT ![p] = "AddTags"]
                    /\ UNCHANGED <<result, atReturn>>

BranchAbsent(p) ==
    /\ state[p] = "absent"
    /\ IF ~Truthy(tags[p])
       THEN /\ Return(p, fail_json("tags argument is required when state is absent"), remote)
            /\ UNCHANGED <<dictact, params>>
       ELSE LET d == AbsentDelta(tags[p].items, tagdict[p]) IN
            /\ dictact' = [dictact EXCEPT ![p] = d]
            /\ IF Empty(d)
               THEN /\ Return(p, exit_json(FALSE, "Nothing to remove here. Move along."), remote)
                    /\ UNCHANGED params
               ELSE /\ params' = [params EXCEPT ![p] = RemoveTagsParams(d)]
                    /\ pc' = [pc EXCEPT ![p] = "RemoveTags"]
                    /\ UNCHANGED <<result, atReturn>>

\* if state == 'list' ... elif state == 'present' ... elif state == 'absent'
Branch(p) ==
    /\ pc[p] = "branch"
    /\ BranchList(p) \/ BranchPresent(p) \/ BranchAbsent(p)
    /\ UNCHANGED <<remote, state, tags, current_tags, tagdict, calls, pre,
                   interfered, prev>>

\* what the service does with AddTags: every member sets its key to its value
ApplyAddTags(r, ps) ==
    LET ks == {ps[i].Key : i \in DOMAIN ps}
    IN [k \in DOMAIN r \cup ks |->
          IF k \in ks THEN ps[CHOOSE i \in DOMAIN ps : ps[i].Key = k].Value
          ELSE r[k]]

\* what the service does with RemoveTags: every member's key is dropped
ApplyRemoveTags(r, ps) ==
    [k \in DOMAIN r \ {ps[i].Key : i \in DOMAIN ps} |-> r[k]]

\* the other runs that have read the ELB and not yet returned
Reading(p) == {q \in Procs \ {p} : pc[q] \in {"branch", "AddTags", "RemoveTags"}}

\* connection.make_request(action, params), then exit_json(changed=True):
\* the request is sent; it returns and the run reports changed, or it raises
\* and the run dies, the service having applied the request or not.
MakeRequest(p, action, after, msg) ==
    /\ pc[p] = action
    /\ calls' = [calls EXCEPT ![p][action] = @ + 1]
    /\ \E raised \in BOOLEAN, applied \in BOOLEAN :
        /\ ~raised => applied
        /\ remote' = IF applied THEN after ELSE remote
        /\ Return(p, IF raised THEN Traceback ELSE exit_json(TRUE, msg),
                  IF applied THEN after ELSE remote)
    /\ interfered' = [q \in Procs |->
                        IF q \in Reading(p) /\ remote' # remote THEN TRUE
                        ELSE interfered[q]]
    /\ UNCHANGED <<state, tags, current_tags, tagdict, dictact, params, pre, prev>>

AddTags(p) ==
    MakeRequest(p, "AddTags", ApplyAddTags(remote, params[p]), "Tags created")

RemoveTags(p) ==
    MakeRequest(p, "RemoveTags", ApplyRemoveTags(remote, params[p]), "Tags removed")

Step(p) == DescribeTags(p) \/ Branch(p) \/ AddTags(p) \/ RemoveTags(p)

\* one caller running the module again and again
Next == Invoke("p1") \/ Step("p1")

Spec == Init /\ [][Next]_vars

\* two runs against the same ELB, each step of each free to interleave
NextConc == \E p \in Procs : (pc[p] = "idle" /\ Invoke(p)) \/ Step(p)

SpecConc == Init /\ [][NextConc]_vars

TypeOK ==
    /\ remote \in Dicts
    /\ pc \in [Procs -> {"idle", "describe", "branch", "AddTags", "RemoveTags", "done"}]
    /\ state \in [Procs -> States]
    /\ tags \in [Procs -> TagsArgs]
    /\ tagdict \in [Procs -> Dicts]
    /\ dictact \in [Procs -> Dicts]

\* ---------------------------------------------------------------- properties
Done(p) == pc[p] = "done"
Succeeded(p) == Done(p) /\ ~result[p].failed
Mutating(p) == calls[p].AddTags + calls[p].RemoveTags
Desired(p) == Items(tags[p].items)

\* the (key, value) members of an AddTags request, the keys of a RemoveTags one
SentPairs(p) == {<<params[p][i].Key, params[p][i].Value>> : i \in DOMAIN params[p]}
SentKeys(p) == {params[p][i].Key : i \in DOMAIN params[p]}

\* what a run is asked to bring about on the ELB whose tags are r
Goal(p, r) ==
    CASE state[p] = "present" -> Desired(p) \subseteq Items(r)
      [] state[p] = "absent" -> Desired(p) \cap Items(r) = {}
      [] OTHER -> TRUE

\* C1: a run issues at most one mutating request in total (never AddTags and
\* RemoveTags both, neither twice), and none when its delta dictact is empty.
C1_SingleCall ==
    \A p \in Procs :
        /\ Mutating(p) <= 1
        /\ (Mutating(p) > 0 \/ pc[p] \in {"AddTags", "RemoveTags"})
              => dictact[p] # EmptyDict

\* a present run that sent its one AddTags request and returned
C1_Witness ==
    /\ Done("p1") /\ state["p1"] = "present"
    /\ calls["p1"] = [DescribeTags |-> 1, AddTags |-> 1, RemoveTags |-> 0]
    /\ dictact["p1"] # EmptyDict

\* C2 as stated: present with the same tags twice in a row, no remote call
\* failing, reports changed=true the first time and changed=false the second.
C2_AsStated ==
    (/\ Succeeded("p1") /\ state["p1"] = "present"
     /\ prev["p1"].valid /\ ~prev["p1"].failed)
        => (prev["p1"].changed /\ ~result["p1"].changed)

\* C2 amended: a present run that succeeds reports changed=true exactly when
\* some desired pair was not on the ELB before it, and a second present run
\* with the same tags right after a successful one reports changed=false.
C2_PresentIdempotent ==
    /\ (Succeeded("p1") /\ state["p1"] = "present")
          => (result["p1"].changed <=> ~(Desired("p1") \subseteq Items(pre["p1"])))
    /\ (/\ Succeeded("p1") /\ state["p1"] = "present"
        /\ prev["p1"].valid /\ ~prev["p1"].failed)
          => ~result["p1"].changed

\* the second of two successful present runs with the same tags, the first
\* of which changed the ELB
C2_Witness ==
    /\ Succeeded("p1") /\ state["p1"] = "present"
    /\ prev["p1"].valid /\ ~prev["p1"].failed /\ prev["p1"].changed
    /\ ~result["p1"].changed

\* C3 as stated: absent with the same tags twice in a row, no remote call
\* failing, reports changed=true the first time and changed=false the second.
C3_AsStated ==
    (/\ Succeeded("p1") /\ state["p1"] = "absent"
     /\ prev["p1"].valid /\ ~prev["p1"].failed)
        => (prev["p1"].changed /\ ~result["p1"].changed)

\* C3 amended: an absent run that succeeds reports changed=true exactly when
\* some requested pair was on the ELB before it, and a second absent run with
\* the same tags right after a successful one reports changed=false.
C3_AbsentIdempotent ==
    /\ (Succeeded("p1") /\ state["p1"] = "absent")
          => (result["p1"].changed <=> Desired("p1") \cap Items(pre["p1"]) # {})
    /\ (/\ Succeeded("p1") /\ state["p1"] = "absent"
        /\ prev["p1"].valid /\ ~prev["p1"].failed)
          => ~result["p1"].changed

\* the second of two successful absent runs with the same tags, the first of
\* which removed something
C3_Witness ==
    /\ Succeeded("p1") /\ state["p1"] = "absent"
    /\ prev["p1"].valid /\ ~prev["p1"].failed /\ prev["p1"].changed
    /\ ~result["p1"].changed

\* C4: with state present or absent and tags empty or missing, the run fails
\* with the 'tags argument is required' error before any remote call, the
\* DescribeTags read included.
C4_FailsBeforeAnyCall ==
    \A p \in Procs :
        (state[p] \in {"present", "absent"} /\ ~Truthy(tags[p]) /\ pc[p] # "idle")
            => /\ calls[p] = NoCalls
               /\ Done(p) => /\ result[p].failed
                             /\ result[p].msg \in
                                  {"tags argument is required when state is present",
                                   "tags argument is required when state is absent"}

\* C5: a list run issues no AddTags or RemoveTags, leaves the ELB's tags as
\* they were, reports changed=false and, when its read returned, exactly the
\* tag map of the ELB.
C5_ListNoOp ==
    \A p \in Procs :
        (state[p] = "list" /\ pc[p] # "idle")
            => /\ Mutating(p) = 0
               /\ pc[p] \notin {"AddTags", "RemoveTags"}
               /\ remote = pre[p]
               /\ ~result[p].changed
               /\ Succeeded(p) => (result[p].has_tags /\ result[p].tags = pre[p])

\* a list run, given tags it ignores, that returned the two tags of the ELB
C5_Witness ==
    /\ Succeeded("p1") /\ state["p1"] = "list" /\ Truthy(tags["p1"])
    /\ result["p1"].tags = [k \in {"A", "B"} |-> IF k = "A" THEN "1" ELSE "2"]

\* C6: the members of the AddTags request of a present run are exactly the
\* desired (key, value) pairs that do not occur verbatim in the current tags,
\* one member per pair.
C6_PresentDelta ==
    \A p \in Procs :
        (pc[p] = "AddTags" \/ calls[p].AddTags > 0)
            => /\ state[p] = "present"
               /\ SentPairs(p) =
                    {kv \in Keys \X Values :
                        /\ kv[1] \in DOMAIN tags[p].items
                        /\ tags[p].items[kv[1]] = kv[2]
                        /\ ~(kv[1] \in DOMAIN pre[p] /\ pre[p][kv[1]] = kv[2])}
               /\ Len(params[p]) = Cardinality(SentPairs(p))

\* current={A:1}, desired={A:2}: the request carries A:2
C6_Witness ==
    /\ calls["p1"].AddTags = 1
    /\ pre["p1"] = [k \in {"A"} |-> "1"]
    /\ tags["p1"].items = [k \in {"A"} |-> "2"]
    /\ params["p1"] = <<[Key |-> "A", Value |-> "2"]>>

\* C7: the keys of the RemoveTags request of an absent run are exactly the
\* desired keys whose (key, value) pair occurs verbatim in the current tags;
\* a tag whose removal was requested with another value stays as it was.
C7_AbsentDelta ==
    \A p \in Procs :
        /\ (pc[p] = "RemoveTags" \/ calls[p].RemoveTags > 0)
              => /\ state[p] = "absent"
                 /\ SentKeys(p) =
                      {k \in Keys : /\ k \in DOMAIN tags[p].items
                                    /\ k \in DOMAIN pre[p]
                                    /\ pre[p][k] = tags[p].items[k]}
                 /\ Len(params[p]) = Cardinality(SentKeys(p))
        /\ (state[p] = "absent" /\ pc[p] # "idle")
              => \A k \in DOMAIN pre[p] :
                    (k \notin DOMAIN tags[p].items \/ tags[p].items[k] # pre[p][k])
                        => (k \in DOMAIN remote /\ remote[k] = pre[p][k])

\* current={A:1,B:2}, absent {A:2,B:2}: only B is sent, A:1 stays
C7_Witness ==
    /\ Succeeded("p1") /\ state["p1"] = "absent"
    /\ pre["p1"] = [k \in {"A", "B"} |-> IF k = "A" THEN "1" ELSE "2"]
    /\ tags["p1"].items = [k \in {"A", "B"} |-> "2"]
    /\ params["p1"] = <<[Key |-> "B"]>>
    /\ remote = [k \in {"A"} |-> "1"]

\* C8 as stated: whatever the outcome of the remote calls, a finished run
\* reports changed=true iff it issued a mutating request.
C8_AsStated ==
    \A p \in Procs : Done(p) => (result[p].changed <=> Mutating(p) > 0)

\* C8 amended: a finished run reports changed=true iff it issued a mutating
\* request and that request returned without raising.
C8_ChangedIffRequestReturned ==
    \A p \in Procs :
        Done(p) => (result[p].changed <=> (Mutating(p) > 0 /\ ~result[p].failed))

\* a run whose AddTags request raised: request issued, no change reported
C8_Witness ==
    /\ Done("p1") /\ calls["p1"].AddTags = 1
    /\ result["p1"].failed /\ ~result["p1"].changed

\* C9: a run that returns without error while the ELB does not meet its goal
\* is always one that another run's request cut across between its read and
\* its return; run one after the other, every run meets its goal on return.
C9_LostOnlyByInterleaving ==
    \A p \in Procs :
        (Succeeded(p) /\ ~Goal(p, atReturn[p])) => interfered[p]

\* both runs over, p1 (present) reported 'Tags already exist' without error,
\* and a desired pair of p1 is missing from the ELB
C9_Witness ==
    /\ Done("p1") /\ Done("p2")
    /\ state["p1"] = "present" /\ ~result["p1"].failed
    /\ ~result["p1"].changed /\ result["p1"].msg = "Tags already exist"
    /\ ~Goal("p1", atReturn["p1"])
    /\ ~Goal("p1", remote)

\* C10: after a present run that returns without error every desired pair is
\* on the ELB, and every tag whose key is not a desired key is as it was.
C10_PresentConverges ==
    \A p \in Procs :
        (Succeeded(p) /\ state[p] = "present")
            => /\ Desired(p) \subseteq Items(remote)
               /\ \A k \in Keys \ DOMAIN tags[p].items :
                    /\ k \in DOMAIN remote <=> k \in DOMAIN pre[p]
                    /\ k \in DOMAIN pre[p] => remote[k] = pre[p][k]

\* a present run that overwrote A, added B and returned changed=true
C10_Witness ==
    /\ Succeeded("p1") /\ state["p1"] = "present" /\ result["p1"].changed
    /\ pre["p1"] = [k \in {"A"} |-> "1"]
    /\ tags["p1"].items = [k \in {"A", "B"} |-> "2"]
    /\ remote = [k \in {"A", "B"} |-> "2"]
====
